---- MODULE Spec2Model ----
(***************************************************************************)
(* The redux slices of flo-webui: the game slice (src/unnamed/part_001)    *)
(* and the ws slice (src/unnamed/part_000).  A reducer is an operator from *)
(* (state, payload) to the next state and the outcome of the dispatch; an  *)
(* action dispatches one reducer on one payload.                           *)
(***************************************************************************)
EXTENDS Integers, Sequences, FiniteSets, TLC

VARIABLES
    game,      \* GameState, the state of gameSlice
    ws,        \* WsState, the state of wsSlice
    last,      \* the action dispatched (or the selector called) last: [type, payload]
    outcome,   \* what that dispatch did besides the state: "ok", "logged", "threw";
               \* of a selector, the value it returned
    prev,      \* [game, ws] as they were before that dispatch
    arrival,   \* updateCurrentPing messages in the order they arrive
    reordered, \* the same messages in another order
    delivered, \* <<how many of arrival game has had, how many of reordered gameB has had>>
    gameB,     \* the game state of a second store, which receives `reordered`
    pathname,  \* router.pathname
    pushed,    \* the routes the last dispatchMessage gave to router.push
    dispatched,  \* the actions the last dispatchMessage dispatched: [slice, type, payload]
    outstanding  \* requests sent and not answered yet: [connect, reload]

vars == <<game, ws, last, outcome, prev, arrival, reordered, delivered, gameB,
          pathname, pushed, dispatched, outstanding>>

\* ---------------------------------------------------------------- values

\* A nullable value (T | null | undefined) is a sequence of length 0 or 1.
Null == <<>>
Some(x) == <<x>>

\* Bounds of the model.
MaxIdx == 1
MaxPing == 2
MaxDeltas == 3

GameIds == {1, 2}
PlayerIds == {7, 8}
NodeIds == {9, 10}
Pings == 1..MaxPing
SlotIndexes == 0..MaxIdx

Open == "Open"
Occupied == "Occupied"

Settings(status, team) == [status |-> status, team |-> team]
Player(id) == [id |-> id]
Slot(settings, player) == [settings |-> settings, player |-> player]
OccupiedBy(id) == Slot(Settings(Occupied, 1), Some(Player(id)))
OpenSlot == Slot(Settings(Open, 2), Null)
GameInfo(id, slots, node) == [id |-> id, slots |-> slots, node |-> node]

\* Dispatch results: a reducer that throws leaves the state as it was (the
\* draft is discarded), one that logs went through console.error.
Ok(s) == [state |-> s, outcome |-> "ok"]
Logged(s) == [state |-> s, outcome |-> "logged"]
Threw(s) == [state |-> s, outcome |-> "threw"]

\* ------------------------------------------------------------ game slice

GameInitialState ==
    [createGameLoading |-> FALSE,
     createGameError |-> Null,
     currentGame |-> Null,
     currentNodeId |-> Null,
     currentNodeLoading |-> FALSE,
     currentPingMap |-> Null,
     pingSnapshotLoading |-> FALSE,
     pingSnapshot |-> Null]

\* GameMatches without the comparison of the ids.
GameMatchesAnyGame(state, game_id) ==
    state.currentGame # Null

\* state.currentGame && state.currentGame.id === game_id
GameMatches(state, game_id) ==
    /\ state.currentGame # Null
    /\ state.currentGame[1].id = game_id

\* ArraySet as arr.push(v).
ArraySetPushing(arr, i, v) ==
    arr \o <<Some(v)>>

\* arr[i] = v on a JavaScript array (i counted from 0): an index past the end
\* lengthens the array and leaves the positions in between empty.
ArraySet(arr, i, v) ==
    IF i < Len(arr)
    THEN [arr EXCEPT ![i + 1] = Some(v)]
    ELSE arr \o [k \in 1..(i - Len(arr)) |-> Null] \o <<Some(v)>>

\* arr[i]: undefined (Null) at an empty position and past the end.
ArrayGet(arr, i) ==
    IF i < Len(arr) THEN arr[i + 1] ELSE Null

clearGameCreateError(state) ==
    Ok([state EXCEPT !.createGameError = Null])

\* updateCurrentGame resetting the node only when it is given a game.
updateCurrentGameIfGiven(state, payload) ==
    Ok([state EXCEPT
        !.currentGame = payload,
        !.currentNodeId =
            IF payload = Null THEN @
            ELSE IF payload[1].node # Null THEN Some(payload[1].node[1].id)
            ELSE Null,
        !.currentPingMap = Null,
        !.createGameLoading = FALSE,
        !.currentNodeLoading = FALSE,
        !.createGameError = Null])

updateCurrentGame(state, payload) ==
    Ok([state EXCEPT
        !.currentGame = payload,
        !.currentNodeId =
            IF payload # Null /\ payload[1].node # Null
            THEN Some(payload[1].node[1].id)
            ELSE Null,
        !.currentPingMap = Null,
        !.createGameLoading = FALSE,
        !.currentNodeLoading = FALSE,
        !.createGameError = Null])

\* updateSlot with the index checked and a missing slot passed over.
updateSlotIfPresent(state, payload) ==
    IF /\ state.currentGame # Null
       /\ state.currentGame[1].id = payload.game_id
       /\ payload.slot_index < Len(state.currentGame[1].slots)
       /\ state.currentGame[1].slots[payload.slot_index + 1] # Null
    THEN LET g == state.currentGame[1]
         IN  Ok([state EXCEPT !.currentGame = Some([g EXCEPT
                 !.slots[payload.slot_index + 1] =
                     Some([g.slots[payload.slot_index + 1][1] EXCEPT
                         !.settings = payload.slot_settings])])])
    ELSE Ok(state)

updateSlot(state, payload) ==
    IF GameMatches(state, payload.game_id)
    THEN LET g == state.currentGame[1]
             slot == ArrayGet(g.slots, payload.slot_index)
         IN  IF slot = Null
             THEN Threw(state)
             ELSE Ok([state EXCEPT !.currentGame = Some([g EXCEPT
                      !.slots[payload.slot_index + 1] =
                          Some([slot[1] EXCEPT !.settings = payload.slot_settings])])])
    ELSE Ok(state)

\* startUpdateNode keeping the node selected while the next one loads.
startUpdateNodeKeepingNode(state) ==
    Ok([state EXCEPT !.currentNodeLoading = TRUE])

startUpdateNode(state) ==
    Ok([state EXCEPT !.currentNodeId = Null, !.currentNodeLoading = TRUE])

\* updateNode without the reset of the loading flag.
updateNodeKeepingLoading(state, payload) ==
    IF state.currentGame # Null /\ state.currentGame[1].id = payload.game_id
    THEN Ok([state EXCEPT
             !.currentNodeId = payload.node_id,
             !.currentPingMap = Null])
    ELSE Ok(state)

\* updateNode without the reset of the ping map.
updateNodeKeepingPings(state, payload) ==
    IF state.currentGame # Null /\ state.currentGame[1].id = payload.game_id
    THEN Ok([state EXCEPT
             !.currentNodeId = payload.node_id,
             !.currentNodeLoading = FALSE])
    ELSE Ok(state)

updateNode(state, payload) ==
    IF GameMatches(state, payload.game_id)
    THEN Ok([state EXCEPT
             !.currentNodeId = payload.node_id,
             !.currentNodeLoading = FALSE,
             !.currentPingMap = Null])
    ELSE Ok(state)

updatePlayerEnter(state, payload) ==
    IF GameMatches(state, payload.game_id)
    THEN LET g == state.currentGame[1]
         IN  Ok([state EXCEPT !.currentGame = Some([g EXCEPT
                 !.slots = ArraySet(g.slots, payload.slot_index, payload.slot)])])
    ELSE Ok(state)

\* slots.find((s) => s.player && s.player.id === player_id), from position i:
\* the position found (from 1), 0 when none is, -1 when the callback reads
\* .player of an empty position (a TypeError).
RECURSIVE FindPlayerSlot(_, _, _)
FindPlayerSlot(slots, player_id, i) ==
    IF i > Len(slots) THEN 0
    ELSE IF slots[i] = Null THEN -1
    ELSE IF slots[i][1].player # Null /\ slots[i][1].player[1].id = player_id THEN i
    ELSE FindPlayerSlot(slots, player_id, i + 1)

updatePlayerLeave(state, payload) ==
    IF GameMatches(state, payload.game_id)
    THEN LET g == state.currentGame[1]
             i == FindPlayerSlot(g.slots, payload.player_id, 1)
         IN  IF i = -1 THEN Threw(state)
             ELSE IF i = 0 THEN Logged(state)
             ELSE Ok([state EXCEPT !.currentGame = Some([g EXCEPT
                      !.slots[i] = Some([g.slots[i][1] EXCEPT
                          !.player = Null,
                          !.settings.status = Open])])])
    ELSE Ok(state)

\* startLoadPingSnapshot keeping the snapshot while the next one loads.
startLoadPingSnapshotKeepingSnapshot(state) ==
    Ok([state EXCEPT !.pingSnapshotLoading = TRUE])

startLoadPingSnapshot(state) ==
    Ok([state EXCEPT !.pingSnapshotLoading = TRUE, !.pingSnapshot = Null])

setPingSnapshot(state, payload) ==
    Ok([state EXCEPT !.pingSnapshotLoading = FALSE, !.pingSnapshot = Some(payload)])

\* MergePingMap installing the delta in place of the player's map.
MergePingMapReplacing(map, ping_map) ==
    ping_map

\* MergePingMap keeping the ping a node already has.
MergePingMapKeepingOld(map, ping_map) ==
    [n \in DOMAIN map \cup DOMAIN ping_map |->
        IF n \in DOMAIN map THEN map[n] ELSE ping_map[n]]

\* MergePingMap adding the delta's ping to the one already there.
MergePingMapAdding(map, ping_map) ==
    [n \in DOMAIN map \cup DOMAIN ping_map |->
        IF n \in DOMAIN ping_map
        THEN IF n \in DOMAIN map THEN map[n] + ping_map[n] ELSE ping_map[n]
        ELSE map[n]]

\* for (let [node_id, ping] of Object.entries(ping_map)) map[node_id] = ping
MergePingMap(map, ping_map) ==
    [n \in DOMAIN map \cup DOMAIN ping_map |->
        IF n \in DOMAIN ping_map THEN ping_map[n] ELSE map[n]]

\* m[k] = v on an object used as a map.
MapSet(m, k, v) ==
    [x \in DOMAIN m \cup {k} |-> IF x = k THEN v ELSE m[x]]

updateCurrentPing(state, payload) ==
    IF state.currentPingMap = Null
    THEN Ok([state EXCEPT !.currentPingMap =
             Some([p \in {payload.player_id} |-> payload.ping_map])])
    ELSE LET pm == state.currentPingMap[1]
         IN  IF payload.player_id \in DOMAIN pm
             THEN Ok([state EXCEPT !.currentPingMap = Some(MapSet(pm,
                      payload.player_id,
                      MergePingMap(pm[payload.player_id], payload.ping_map)))])
             ELSE Ok([state EXCEPT !.currentPingMap =
                      Some(MapSet(pm, payload.player_id, payload.ping_map))])

\* createGame.pending leaving the current game with the node.
createGamePendingLeavingGame(state) ==
    Ok([state EXCEPT
        !.createGameLoading = TRUE,
        !.createGameError = Null,
        !.currentGame = Null,
        !.currentNodeId = Null])

createGamePending(state) ==
    Ok([state EXCEPT
        !.createGameLoading = TRUE,
        !.createGameError = Null,
        !.currentNodeId = Null])

createGameRejected(state, error) ==
    Ok([state EXCEPT !.createGameLoading = FALSE, !.createGameError = error])

\* -------------------------------------------------------------- ws slice

Idle == "Idle"
Connecting == "Connecting"
Connected == "Connected"
Disconnected == "Disconnected"
WsStatus == {Idle, Connecting, Connected, Disconnected}

\* `error` is optional and absent from initialState: undefined, read as Null.
WsInitialState ==
    [status |-> Idle,
     error |-> Null,
     clientInfo |-> Null,
     clientInfoReloading |-> FALSE,
     clientInfoReloadError |-> Null,
     playerSession |-> Null,
     playerSessionLoading |-> FALSE,
     playerSessionError |-> Null,
     disconnectError |-> Null]

updateStatus(state, payload) ==
    Ok([state EXCEPT !.status = payload])

\* updateError without the forced status.
updateErrorKeepingStatus(state, payload) ==
    Ok([state EXCEPT !.error = payload])

\* updateError forcing the status whatever the payload.
updateErrorAlwaysDisconnecting(state, payload) ==
    Ok([state EXCEPT !.error = payload, !.status = Disconnected])

updateError(state, payload) ==
    Ok([state EXCEPT
        !.error = payload,
        !.status = IF payload # Null THEN Disconnected ELSE @])

updateClientInfo(state, payload) ==
    Ok([state EXCEPT !.clientInfo = payload])

updateReloadClientInfoError(state, payload) ==
    Ok([state EXCEPT !.clientInfoReloading = FALSE, !.clientInfoReloadError = payload])

updateClientInfoReloading(state, payload) ==
    Ok([state EXCEPT !.clientInfoReloading = payload])

\* updatePlayerSession leaving the loading flag to the newest request.
updatePlayerSessionKeepingLoading(state, payload) ==
    Ok([state EXCEPT !.playerSession = payload])

updatePlayerSession(state, payload) ==
    Ok([state EXCEPT !.playerSessionLoading = FALSE, !.playerSession = payload])

\* Spread as { ...b, ...a }.
SpreadSwapped(a, b) ==
    LET fa == IF a = Null THEN <<>> ELSE a[1]
    IN  [f \in DOMAIN fa \cup DOMAIN b |-> IF f \in DOMAIN fa THEN fa[f] ELSE b[f]]

\* { ...a, ...b } with a possibly null: the fields of b, then those of a that
\* b lacks.  An object is a function from its field names.
Spread(a, b) ==
    LET fa == IF a = Null THEN <<>> ELSE a[1]
    IN  [f \in DOMAIN fa \cup DOMAIN b |-> IF f \in DOMAIN b THEN b[f] ELSE fa[f]]

updatePlayerSessionPartial(state, payload) ==
    Ok([state EXCEPT
        !.playerSessionLoading = FALSE,
        !.playerSession = Some(Spread(state.playerSession, payload))])

updatePlayerSessionLoading(state, payload) ==
    Ok([state EXCEPT !.playerSessionLoading = payload, !.playerSessionError = Null])

updatePlayerSessionError(state, payload) ==
    Ok([state EXCEPT
        !.playerSessionLoading = FALSE,
        !.playerSession = Null,
        !.playerSessionError = payload])

\* setWsDisconnected clearing the session's error with the session.
setWsDisconnectedClearingErrors(state) ==
    Ok([state EXCEPT
        !.status = Disconnected,
        !.clientInfoReloading = FALSE,
        !.clientInfo = Null,
        !.playerSessionLoading = FALSE,
        !.playerSession = Null,
        !.playerSessionError = Null])

setWsDisconnected(state) ==
    Ok([state EXCEPT
        !.status = Disconnected,
        !.clientInfoReloading = IF @ THEN FALSE ELSE @,
        !.clientInfo = Null,
        !.playerSessionLoading = IF @ THEN FALSE ELSE @,
        !.playerSession = Null])

setDisconnectError(state, payload) ==
    Ok([state EXCEPT !.disconnectError = payload])

\* ------------------------------------------------------------- dispatch

Action(type, payload) == [type |-> type, payload |-> payload]

Init ==
    /\ game = GameInitialState
    /\ ws = WsInitialState
    /\ last = Action("@@INIT", Null)
    /\ outcome = "ok"
    /\ prev = [game |-> GameInitialState, ws |-> WsInitialState]
    /\ arrival = <<>>
    /\ reordered = <<>>
    /\ delivered = <<0, 0>>
    /\ gameB = GameInitialState
    /\ pathname = "/"
    /\ pushed = <<>>
    /\ dispatched = <<>>
    /\ outstanding = [connect |-> 0, reload |-> 0]

\* store.dispatch of a gameSlice action whose reducer call is r.
GameDispatch(type, payload, r) ==
    /\ game' = r.state
    /\ outcome' = r.outcome
    /\ last' = Action(type, payload)
    /\ prev' = [game |-> game, ws |-> ws]
    /\ UNCHANGED <<ws, arrival, reordered, delivered, gameB>>
    /\ UNCHANGED <<pathname, pushed, dispatched, outstanding>>

\* store.dispatch of a wsSlice action whose reducer call is r.
WsDispatch(type, payload, r) ==
    /\ ws' = r.state
    /\ outcome' = r.outcome
    /\ last' = Action(type, payload)
    /\ prev' = [game |-> game, ws |-> ws]
    /\ UNCHANGED <<game, arrival, reordered, delivered, gameB>>
    /\ UNCHANGED <<pathname, pushed, dispatched, outstanding>>

\* Payloads.
AllSettings == {Settings(s, t) : s \in {Open, Occupied}, t \in {1, 2}}
PingMaps == UNION {[D -> Pings] : D \in SUBSET NodeIds}
Game1 == GameInfo(1, <<Some(OccupiedBy(7)), Some(OpenSlot)>>, Null)
Game2 == GameInfo(2, <<>>, Some([id |-> 9]))
GameInfos == {Null, Some(Game1), Some(Game2)}
SlotUpdateMessages(indexes, settings) ==
    [game_id : GameIds, slot_index : indexes, slot_settings : settings]
PlayerEnterMessages(indexes, players) ==
    [game_id : GameIds, slot_index : indexes, slot : {OccupiedBy(p) : p \in players}]
PlayerLeaveMessages(players) ==
    [game_id : GameIds, player_id : players]
SelectNodeMessages(nodes) ==
    [game_id : GameIds, node_id : {Some(n) : n \in nodes}]
PingMapUpdateMessages(players, maps) ==
    [player_id : players, ping_map : maps]

ClearGameCreateError ==
    GameDispatch("clearGameCreateError", Null, clearGameCreateError(game))
UpdateCurrentGame ==
    \E info \in GameInfos :
        GameDispatch("updateCurrentGame", info, updateCurrentGame(game, info))
UpdateSlot(indexes, settings) ==
    \E m \in SlotUpdateMessages(indexes, settings) :
        GameDispatch("updateSlot", m, updateSlot(game, m))
StartUpdateNode ==
    GameDispatch("startUpdateNode", Null, startUpdateNode(game))
UpdateNode(nodes) ==
    \E m \in SelectNodeMessages(nodes) :
        GameDispatch("updateNode", m, updateNode(game, m))
UpdatePlayerEnter(indexes, players) ==
    \E m \in PlayerEnterMessages(indexes, players) :
        GameDispatch("updatePlayerEnter", m, updatePlayerEnter(game, m))
UpdatePlayerLeave(players) ==
    \E m \in PlayerLeaveMessages(players) :
        GameDispatch("updatePlayerLeave", m, updatePlayerLeave(game, m))
StartLoadPingSnapshot ==
    GameDispatch("startLoadPingSnapshot", Null, startLoadPingSnapshot(game))
SetPingSnapshot ==
    \E m \in {"snapshot"} :
        GameDispatch("setPingSnapshot", m, setPingSnapshot(game, m))
UpdateCurrentPing(players, maps) ==
    \E m \in PingMapUpdateMessages(players, maps) :
        GameDispatch("updateCurrentPing", m, updateCurrentPing(game, m))
CreateGamePending ==
    GameDispatch("createGame/pending", Null, createGamePending(game))
CreateGameRejected ==
    \E e \in {Some("rejected")} :
        GameDispatch("createGame/rejected", e, createGameRejected(game, e))

\* The game slice under every one of its reducers; the slot events are for
\* the first slot, NextSlots has them for every slot.
Next ==
    \/ ClearGameCreateError
    \/ UpdateCurrentGame
    \/ UpdateSlot({0}, {Settings(Occupied, 2)})
    \/ StartUpdateNode
    \/ UpdateNode({10})
    \/ UpdatePlayerEnter({0}, {7})
    \/ UpdatePlayerLeave({7})
    \/ StartLoadPingSnapshot
    \/ SetPingSnapshot
    \/ UpdateCurrentPing({7}, {[n \in {9} |-> 1]})
    \/ CreateGamePending
    \/ CreateGameRejected

Spec == Init /\ [][Next]_vars

\* The events of the current game's slots, with every payload.
NextSlots ==
    \/ UpdateCurrentGame
    \/ UpdateSlot(SlotIndexes, AllSettings)
    \/ UpdatePlayerEnter(SlotIndexes, PlayerIds)
    \/ UpdatePlayerLeave(PlayerIds)

SpecSlots == Init /\ [][NextSlots]_vars

\* The ping map under every delta, and the events that reset it.
NextPing ==
    \/ UpdateCurrentGame
    \/ UpdateNode({10})
    \/ UpdateCurrentPing(PlayerIds, PingMaps)

SpecPing == Init /\ [][NextPing]_vars

\* The ws slice under every one of its reducers.
Errors == {Some("error")}
PlayerSessions == {[status |-> 1, game_id |-> 1]}
PartialPlayerSessions == {[status |-> 2], [game_id |-> 2]}

UpdateStatus ==
    \E st \in WsStatus : WsDispatch("updateStatus", st, updateStatus(ws, st))
UpdateError ==
    \E e \in Errors \cup {Null} : WsDispatch("updateError", e, updateError(ws, e))
UpdateClientInfo ==
    \E m \in {Some("clientInfo")} :
        WsDispatch("updateClientInfo", m, updateClientInfo(ws, m))
UpdateReloadClientInfoError ==
    \E e \in Errors :
        WsDispatch("updateReloadClientInfoError", e, updateReloadClientInfoError(ws, e))
UpdateClientInfoReloading ==
    \E b \in BOOLEAN :
        WsDispatch("updateClientInfoReloading", b, updateClientInfoReloading(ws, b))
UpdatePlayerSession ==
    \E m \in PlayerSessions :
        WsDispatch("updatePlayerSession", Some(m), updatePlayerSession(ws, Some(m)))
UpdatePlayerSessionPartial ==
    \E m \in PartialPlayerSessions :
        WsDispatch("updatePlayerSessionPartial", m, updatePlayerSessionPartial(ws, m))
UpdatePlayerSessionLoading ==
    \E b \in BOOLEAN :
        WsDispatch("updatePlayerSessionLoading", b, updatePlayerSessionLoading(ws, b))
UpdatePlayerSessionError ==
    \E e \in Errors :
        WsDispatch("updatePlayerSessionError", e, updatePlayerSessionError(ws, e))
SetWsDisconnected ==
    WsDispatch("setWsDisconnected", Null, setWsDisconnected(ws))
SetDisconnectError ==
    \E e \in Errors :
        WsDispatch("setDisconnectError", e, setDisconnectError(ws, e))

NextWs ==
    \/ UpdateStatus
    \/ UpdateError
    \/ UpdateClientInfo
    \/ UpdateReloadClientInfoError
    \/ UpdateClientInfoReloading
    \/ UpdatePlayerSession
    \/ UpdatePlayerSessionPartial
    \/ UpdatePlayerSessionLoading
    \/ UpdatePlayerSessionError
    \/ SetWsDisconnected
    \/ SetDisconnectError

SpecWs == Init /\ [][NextWs]_vars

\* Two stores that start in the same state and receive the same
\* updateCurrentPing messages, the second in another order that keeps the order
\* of any two messages with a (player_id, node_id) pair in common.
ReorderMessages ==
    {[player_id |-> 7, ping_map |-> m] :
        m \in {9 :> 1, 9 :> 2, 10 :> 1, 9 :> 1 @@ 10 :> 2}}
    \cup {[player_id |-> 8, ping_map |-> m] : m \in {9 :> 1, <<>>}}
StartPingMaps ==
    {Null, Some(7 :> (9 :> 2 @@ 10 :> 2)), Some(8 :> (10 :> 1))}

SamePair(a, b) ==
    /\ a.player_id = b.player_id
    /\ DOMAIN a.ping_map \cap DOMAIN b.ping_map # {}

\* reordered[i] = seq[order[i]].
OrdersKeepingPairs(seq) ==
    {order \in Permutations(1..Len(seq)) :
        \A i, j \in 1..Len(seq) :
            (i < j /\ SamePair(seq[order[i]], seq[order[j]])) => order[i] < order[j]}

InitReorder ==
    /\ ws = WsInitialState
    /\ game \in {[GameInitialState EXCEPT !.currentPingMap = m] : m \in StartPingMaps}
    /\ gameB = game
    /\ last = Action("@@INIT", Null)
    /\ outcome = "ok"
    /\ prev = [game |-> game, ws |-> ws]
    /\ arrival \in UNION {[1..n -> ReorderMessages] : n \in 0..MaxDeltas}
    /\ reordered \in {[i \in 1..Len(arrival) |-> arrival[order[i]]] :
                        order \in OrdersKeepingPairs(arrival)}
    /\ delivered = <<0, 0>>
    /\ pathname = "/"
    /\ pushed = <<>>
    /\ dispatched = <<>>
    /\ outstanding = [connect |-> 0, reload |-> 0]

DeliverArrival ==
    /\ delivered[1] < Len(arrival)
    /\ LET m == arrival[delivered[1] + 1]
           r == updateCurrentPing(game, m)
       IN  /\ game' = r.state
           /\ outcome' = r.outcome
           /\ last' = Action("updateCurrentPing", m)
           /\ prev' = [game |-> game, ws |-> ws]
    /\ delivered' = <<delivered[1] + 1, delivered[2]>>
    /\ UNCHANGED <<ws, arrival, reordered, gameB>>
    /\ UNCHANGED <<pathname, pushed, dispatched, outstanding>>

DeliverReordered ==
    /\ delivered[1] = Len(arrival)
    /\ delivered[2] < Len(reordered)
    /\ gameB' = updateCurrentPing(gameB, reordered[delivered[2] + 1]).state
    /\ delivered' = <<delivered[1], delivered[2] + 1>>
    /\ UNCHANGED <<game, ws, last, outcome, prev, arrival, reordered>>
    /\ UNCHANGED <<pathname, pushed, dispatched, outstanding>>

NextReorder ==
    \/ DeliverArrival
    \/ DeliverReordered

SpecReorder == InitReorder /\ [][NextReorder]_vars

\* ------------------------------------------------------------ selectors

\* String(n) of a non-negative integer.
Digits == <<"0", "1", "2", "3", "4", "5", "6", "7", "8", "9">>

RECURSIVE NumberToString(_)
NumberToString(n) ==
    IF n < 10 THEN Digits[n + 1] ELSE NumberToString(n \div 10) \o Digits[(n % 10) + 1]

\* Object.entries(obj) of an object used as a map: its keys are strings.
ObjectEntries(obj) == {<<NumberToString(k), obj[k]>> : k \in DOMAIN obj}

\* obj[key] with a string key: Null where the object has no such property.
Property(obj, key) ==
    IF \E k \in DOMAIN obj : NumberToString(k) = key
    THEN Some(obj[CHOOSE k \in DOMAIN obj : NumberToString(k) = key])
    ELSE Null

\* nodes.find((node) => node.id === id), from position i.
RECURSIVE FindNode(_, _, _)
FindNode(nodes, id, i) ==
    IF i > Len(nodes) THEN Null
    ELSE IF nodes[i].id = id THEN Some(nodes[i])
    ELSE FindNode(nodes, id, i + 1)

selectCurrentNode(id, nodes) ==
    IF id = Null \/ id[1] = 0 \/ Len(nodes) = 0
    THEN Null
    ELSE FindNode(nodes, id[1], 1)

\* r starts as { [playerInfo.id]: node.ping }; every entry of pingMap with a
\* number for the node then assigns r[player_id], the local player's included.
selectCurrentNodePingMap(node, pingMap, playerInfo) ==
    IF node = Null \/ pingMap = Null \/ playerInfo = Null
    THEN Null
    ELSE LET nodeIdString == NumberToString(node[1].id)
             own == NumberToString(playerInfo[1].id)
             numeric == {e \in ObjectEntries(pingMap[1]) :
                            Property(e[2], nodeIdString) # Null}
         IN  Some([k \in {own} \cup {e[1] : e \in numeric} |->
                     IF \E e \in numeric : e[1] = k
                     THEN Property((CHOOSE e \in numeric : e[1] = k)[2], nodeIdString)[1]
                     ELSE node[1].ping])

\* The node list of the node slice and the player of the auth slice, which the
\* selector reads beside the game state.
NodeLists ==
    {<<>>} \cup {<<[id |-> 9, ping |-> p], [id |-> 10, ping |-> q]>> : p, q \in Pings}
PlayerInfos == {Null, Some([id |-> 7])}

SelectCurrentNodePingMap ==
    \E nodes \in NodeLists, playerInfo \in PlayerInfos :
        /\ last' = Action("selectCurrentNodePingMap",
                          [nodes |-> nodes, playerInfo |-> playerInfo])
        /\ outcome' = selectCurrentNodePingMap(
                          selectCurrentNode(game.currentNodeId, nodes),
                          game.currentPingMap, playerInfo)
        /\ prev' = [game |-> game, ws |-> ws]
        /\ UNCHANGED <<game, ws, arrival, reordered, delivered, gameB>>
        /\ UNCHANGED <<pathname, pushed, dispatched, outstanding>>

\* The selector read after any of the events that change what it reads.
NextSelect ==
    \/ UpdateCurrentGame
    \/ UpdateNode({10})
    \/ UpdateCurrentPing(PlayerIds, PingMaps)
    \/ SelectCurrentNodePingMap

SpecSelect == Init /\ [][NextSelect]_vars

\* ------------------------------------------------------- dispatchMessage

MaxOutstanding == 2

\* An action given to dispatch, with the slice whose action creator made it.
Dispatching(slice, type, payload) ==
    [slice |-> slice, type |-> type, payload |-> payload]

\* dispatchMessage whose Disconnect case also dispatches setWsDisconnected.
dispatchMessageDisconnecting(path, msg) ==
    IF msg.type = "Disconnect"
    THEN [pushed |-> <<>>,
          dispatched |-> <<
              Dispatching("ws", "updatePlayerSessionError", Some([message |-> msg.message])),
              Dispatching("ws", "setDisconnectError", Some([message |-> msg.message])),
              Dispatching("ws", "setWsDisconnected", Null)>>]
    ELSE [pushed |-> <<>>, dispatched |-> <<>>]

\* dispatchMessage with a membership check before every mutation.
dispatchMessageCheckingFirst(path, msg) ==
    [pushed |-> <<>>,
     dispatched |-> <<
         Dispatching("game", "checkCurrentGameId", Null),
         Dispatching("ws", "updateClientInfo", Some(msg))>>]

\* dispatchMessage with a default case that reports the message.
dispatchMessageReporting(path, msg) ==
    [pushed |-> <<>>,
     dispatched |-> <<Dispatching("ws", "updateError", Some([message |-> msg.type]))>>]

\* dispatchMessage(router, dispatch, msg) with router.pathname = path: what it
\* gives to router.push and to dispatch, in order.  The switch has no default.
dispatchMessage(path, msg) ==
    LET One(slice, type, payload) ==
            [pushed |-> <<>>, dispatched |-> <<Dispatching(slice, type, payload)>>]
    IN  CASE msg.type = "ClientInfo" ->
                 One("ws", "updateClientInfo", Some(msg))
          [] msg.type = "ReloadClientInfoError" ->
                 One("ws", "updateReloadClientInfoError", Some(msg))
          [] msg.type = "PlayerSession" ->
                 One("ws", "updatePlayerSession", Some(msg))
          [] msg.type = "PlayerSessionUpdate" ->
                 [pushed |-> <<>>,
                  dispatched |-> <<
                      Dispatching("game", "checkCurrentGameId", msg.game_id),
                      Dispatching("ws", "updatePlayerSessionPartial", msg)>>]
          [] msg.type = "ConnectRejected" ->
                 One("ws", "updatePlayerSessionError", Some([message |-> msg.message]))
          [] msg.type = "Disconnect" ->
                 [pushed |-> <<>>,
                  dispatched |-> <<
                      Dispatching("ws", "updatePlayerSessionError",
                                  Some([message |-> msg.message])),
                      Dispatching("ws", "setDisconnectError",
                                  Some([message |-> msg.message]))>>]
          [] msg.type = "ListMaps" ->
                 One("map", "setMapListLoaded", msg.data)
          [] msg.type = "ListMapsError" ->
                 One("map", "setMapListLoadError", msg)
          [] msg.type = "GetMapDetail" ->
                 One("map", "setMapDetailLoaded", msg)
          [] msg.type = "GetMapDetailError" ->
                 One("map", "setMapLoadDetailLoadError", msg)
          [] msg.type = "CurrentGameInfo" ->
                 [pushed |-> IF path # "/lobby" THEN <<"/lobby">> ELSE <<>>,
                  dispatched |-> <<Dispatching("game", "updateCurrentGame", Some(msg))>>]
          [] msg.type = "GamePlayerEnter" ->
                 One("game", "updatePlayerEnter", msg)
          [] msg.type = "GamePlayerLeave" ->
                 One("game", "updatePlayerLeave", msg)
          [] msg.type = "GameSlotUpdate" ->
                 One("game", "updateSlot", msg)
          [] msg.type = "ListNodes" ->
                 One("node", "updateNodes", msg.nodes)
          [] msg.type = "PingUpdate" ->
                 One("node", "updateNodesPing", msg)
          [] msg.type = "GamePlayerPingMapSnapshot" ->
                 One("game", "setPingSnapshot", msg)
          [] msg.type = "GameSelectNode" ->
                 One("game", "updateNode", msg)
          [] msg.type = "PlayerPingMapUpdate" ->
                 One("game", "updateCurrentPing", msg)
          [] msg.type = "GameStartReject" ->
                 One("game", "updateStartGameRejection", msg)
          [] msg.type = "GameStarting" ->
                 One("game", "updateStartGameLoading", msg)
          [] msg.type = "GameStarted" ->
                 One("game", "updateGameStarted", msg)
          [] msg.type = "GameStartError" ->
                 One("game", "updateStartGameError", msg)
          [] msg.type = "GameSlotClientStatusUpdate" ->
                 One("game", "updateSlotClientStatus", msg)
          [] msg.type = "GameStatusUpdate" ->
                 One("game", "updateGameStatus", msg)
          [] OTHER ->
                 [pushed |-> <<>>, dispatched |-> <<>>]

\* The store's reducer on the ws and game states.  The action creators that
\* dispatchMessage imports from ./map and ./node, and those of ./game that the
\* game slice does not define, have their reducers outside these two states as
\* the source gives them: such an action leaves ws and game as they are.
Reduce(store, a) ==
    LET InWs(r) == [ws |-> r.state, game |-> store.game, outcome |-> r.outcome]
        InGame(r) == [ws |-> store.ws, game |-> r.state, outcome |-> r.outcome]
    IN  CASE a.type = "updateClientInfo" ->
                 InWs(updateClientInfo(store.ws, a.payload))
          [] a.type = "updateReloadClientInfoError" ->
                 InWs(updateReloadClientInfoError(store.ws, a.payload))
          [] a.type = "updatePlayerSession" ->
                 InWs(updatePlayerSession(store.ws, a.payload))
          [] a.type = "updatePlayerSessionPartial" ->
                 InWs(updatePlayerSessionPartial(store.ws, a.payload))
          [] a.type = "updatePlayerSessionError" ->
                 InWs(updatePlayerSessionError(store.ws, a.payload))
          [] a.type = "setDisconnectError" ->
                 InWs(setDisconnectError(store.ws, a.payload))
          [] a.type = "setWsDisconnected" ->
                 InWs(setWsDisconnected(store.ws))
          [] a.type = "updateError" ->
                 InWs(updateError(store.ws, a.payload))
          [] a.type = "updateCurrentGame" ->
                 InGame(updateCurrentGame(store.game, a.payload))
          [] a.type = "updatePlayerEnter" ->
                 InGame(updatePlayerEnter(store.game, a.payload))
          [] a.type = "updatePlayerLeave" ->
                 InGame(updatePlayerLeave(store.game, a.payload))
          [] a.type = "updateSlot" ->
                 InGame(updateSlot(store.game, a.payload))
          [] a.type = "setPingSnapshot" ->
                 InGame(setPingSnapshot(store.game, a.payload))
          [] a.type = "updateNode" ->
                 InGame(updateNode(store.game, a.payload))
          [] a.type = "updateCurrentPing" ->
                 InGame(updateCurrentPing(store.game, a.payload))
          [] OTHER ->
                 [ws |-> store.ws, game |-> store.game, outcome |-> "ok"]

\* The dispatch calls of one dispatchMessage, from the i-th on: a reducer that
\* throws ends the call, so the actions after it are not dispatched.  `done`
\* counts the actions given to dispatch.
RECURSIVE DispatchAll(_, _, _)
DispatchAll(store, actions, i) ==
    IF i > Len(actions)
    THEN [ws |-> store.ws, game |-> store.game, outcome |-> store.outcome, done |-> i - 1]
    ELSE LET r == Reduce(store, actions[i])
         IN  IF r.outcome = "threw"
             THEN [ws |-> r.ws, game |-> r.game, outcome |-> "threw", done |-> i]
             ELSE DispatchAll(
                      [r EXCEPT !.outcome = IF store.outcome = "logged" THEN "logged" ELSE @],
                      actions, i + 1)

\* The request, if any, that a message answers.
AnsweredRequest(type) ==
    CASE type \in {"PlayerSession", "ConnectRejected"} -> "connect"
      [] type \in {"ClientInfo", "ReloadClientInfoError"} -> "reload"
      [] OTHER -> "none"

Answered(requests, type) ==
    IF AnsweredRequest(type) # "none" /\ requests[AnsweredRequest(type)] > 0
    THEN [requests EXCEPT ![AnsweredRequest(type)] = @ - 1]
    ELSE requests

\* The provider hands one inbound message to dispatchMessage.
ReceiveMessage(msgs) ==
    \E msg \in msgs :
        \E d \in {dispatchMessage(pathname, msg)} :
        \E r \in {DispatchAll([ws |-> ws, game |-> game, outcome |-> "ok"], d.dispatched, 1)} :
            /\ pushed' = d.pushed
            /\ pathname' = IF d.pushed # <<>> THEN d.pushed[Len(d.pushed)] ELSE pathname
            /\ dispatched' = SubSeq(d.dispatched, 1, r.done)
            /\ ws' = r.ws
            /\ game' = r.game
            /\ outcome' = r.outcome
            /\ last' = Action("dispatchMessage", msg)
            /\ prev' = [game |-> game, ws |-> ws]
            /\ outstanding' = Answered(outstanding, msg.type)
            /\ UNCHANGED <<arrival, reordered, delivered, gameB>>

HandledTypes ==
    {"ClientInfo", "ReloadClientInfoError", "PlayerSession", "PlayerSessionUpdate",
     "ConnectRejected", "Disconnect", "ListMaps", "ListMapsError", "GetMapDetail",
     "GetMapDetailError", "CurrentGameInfo", "GamePlayerEnter", "GamePlayerLeave",
     "GameSlotUpdate", "ListNodes", "PingUpdate", "GamePlayerPingMapSnapshot",
     "GameSelectNode", "PlayerPingMapUpdate", "GameStartReject", "GameStarting",
     "GameStarted", "GameStartError", "GameSlotClientStatusUpdate", "GameStatusUpdate"}

\* The types of the requests the client sends, which no case handles.
SentTypes == {"Connect", "ReloadClientInfo", "GamePlayerPingMapSnapshotRequest"}

\* WsMessages: objects with a type and the fields of that type.
WsMessages ==
    {[type |-> "ClientInfo", version |-> 1],
     [type |-> "ReloadClientInfoError", message |-> "reload"],
     [type |-> "PlayerSessionUpdate", status |-> 2, game_id |-> 2],
     [type |-> "ConnectRejected", message |-> "rejected"],
     [type |-> "Disconnect", message |-> "disconnect"]}
        \cup {[type |-> "PlayerSession", status |-> m.status, game_id |-> m.game_id] :
                 m \in PlayerSessions}

GameMessages ==
    {[type |-> "CurrentGameInfo", id |-> Game1.id, slots |-> Game1.slots, node |-> Game1.node],
     [type |-> "GamePlayerEnter", game_id |-> 1, slot_index |-> 0, slot |-> OccupiedBy(7)],
     [type |-> "GamePlayerLeave", game_id |-> 1, player_id |-> 7],
     [type |-> "GameSlotUpdate", game_id |-> 1, slot_index |-> 0,
      slot_settings |-> Settings(Occupied, 2)],
     [type |-> "GamePlayerPingMapSnapshot", game_id |-> 1],
     [type |-> "GameSelectNode", game_id |-> 1, node_id |-> Some(10)],
     [type |-> "PlayerPingMapUpdate", player_id |-> 7, ping_map |-> [n \in {9} |-> 1]]}

OtherMessages ==
    {[type |-> "ListMaps", data |-> "maps"],
     [type |-> "ListNodes", nodes |-> "nodes"],
     [type |-> "ListMapsError", message |-> "maps"],
     [type |-> "GetMapDetailError", message |-> "map"],
     [type |-> "GameStartError", message |-> "start"]}
        \cup [type : {"GetMapDetail", "PingUpdate", "GameStartReject", "GameStarting",
                      "GameStarted", "GameSlotClientStatusUpdate", "GameStatusUpdate"},
              game_id : {1}]
        \cup [type : SentTypes, game_id : {1}]

InboundMessages == WsMessages \cup GameMessages \cup OtherMessages

\* The store once the provider has connected: updateStatus(Connected) on the
\* initial state.
InitMessages ==
    /\ game = GameInitialState
    /\ ws = updateStatus(WsInitialState, Connected).state
    /\ last = Action("updateStatus", Connected)
    /\ outcome = "ok"
    /\ prev = [game |-> GameInitialState, ws |-> WsInitialState]
    /\ arrival = <<>>
    /\ reordered = <<>>
    /\ delivered = <<0, 0>>
    /\ gameB = GameInitialState
    /\ pathname = "/"
    /\ pushed = <<>>
    /\ dispatched = <<>>
    /\ outstanding = [connect |-> 0, reload |-> 0]

NextMessages == ReceiveMessage(InboundMessages)

SpecMessages == InitMessages /\ [][NextMessages]_vars

\* The thunk connect: dispatch(updatePlayerSessionLoading(true)), then the
\* Connect request is sent.
Connect ==
    /\ outstanding.connect < MaxOutstanding
    /\ LET r == updatePlayerSessionLoading(ws, TRUE)
       IN  /\ ws' = r.state
           /\ outcome' = r.outcome
    /\ last' = Action("updatePlayerSessionLoading", TRUE)
    /\ prev' = [game |-> game, ws |-> ws]
    /\ outstanding' = [outstanding EXCEPT !.connect = @ + 1]
    /\ UNCHANGED <<game, arrival, reordered, delivered, gameB, pathname, pushed, dispatched>>

\* The thunk reloadClientInfo: dispatch(updateClientInfoReloading(true)), then
\* the ReloadClientInfo request is sent.
ReloadClientInfo ==
    /\ outstanding.reload < MaxOutstanding
    /\ LET r == updateClientInfoReloading(ws, TRUE)
       IN  /\ ws' = r.state
           /\ outcome' = r.outcome
    /\ last' = Action("updateClientInfoReloading", TRUE)
    /\ prev' = [game |-> game, ws |-> ws]
    /\ outstanding' = [outstanding EXCEPT !.reload = @ + 1]
    /\ UNCHANGED <<game, arrival, reordered, delivered, gameB, pathname, pushed, dispatched>>

\* The answers to the two requests.
ResponseMessages == {m \in WsMessages : AnsweredRequest(m.type) # "none"}

\* The answer to the oldest request of its kind arrives.
Respond ==
    \E msg \in ResponseMessages :
        /\ outstanding[AnsweredRequest(msg.type)] > 0
        /\ ReceiveMessage({msg})

NextRequests ==
    \/ Connect
    \/ ReloadClientInfo
    \/ Respond

SpecRequests == Init /\ [][NextRequests]_vars

\* ---------------------------------------------------------------- claims

GuardedTypes == {"updateSlot", "updatePlayerEnter", "updatePlayerLeave", "updateNode"}

\* The event dispatched last carried a game_id that is not the current game's.
StaleEvent ==
    /\ last.type \in GuardedTypes
    /\ \/ prev.game.currentGame = Null
       \/ prev.game.currentGame[1].id # last.payload.game_id

\* C1: updateSlot, updatePlayerEnter, updatePlayerLeave and updateNode drop an
\* event when currentGame is null or has another id than the event's game_id:
\* the whole game state is as it was, nothing is logged and nothing is thrown.
C1_StaleEventDropped ==
    StaleEvent => game = prev.game /\ outcome = "ok"

\* A node event for game 1 reached a store whose current game is game 2, with
\* a ping map, a ping snapshot and a create-game error in the state.
C1_Witness ==
    /\ StaleEvent
    /\ last.type = "updateNode"
    /\ prev.game.currentGame # Null
    /\ prev.game.currentPingMap # Null
    /\ prev.game.pingSnapshot # Null
    /\ prev.game.createGameError # Null
    /\ prev.game.currentNodeId # last.payload.node_id

NodeChanged == game.currentNodeId # prev.game.currentNodeId

\* C5 as stated: in every step in which currentNodeId changes, currentPingMap
\* is null after the step.
C5_NodeChangeResetsPings ==
    NodeChanged => game.currentPingMap = Null

\* C5, amended: currentNodeId changes only by updateNode and updateCurrentGame,
\* after which currentPingMap is null, and by startUpdateNode and
\* createGame.pending, which set it to null and leave currentPingMap as it was.
C5_NodeChangeByAction ==
    NodeChanged =>
        \/ /\ last.type \in {"updateNode", "updateCurrentGame"}
           /\ game.currentPingMap = Null
        \/ /\ last.type \in {"startUpdateNode", "createGame/pending"}
           /\ game.currentNodeId = Null
           /\ game.currentPingMap = prev.game.currentPingMap

\* updateNode moved the game from one node to another and discarded a ping map.
C5_Witness ==
    /\ NodeChanged
    /\ last.type = "updateNode"
    /\ prev.game.currentNodeId # Null
    /\ game.currentNodeId # Null
    /\ prev.game.currentPingMap # Null
    /\ game.currentPingMap = Null

\* C8: updateCurrentGame(info) is unconditional: whatever the state was, the
\* current game is info, the ping map is null, the node and create-game loading
\* flags are false, the create-game error is null, and currentNodeId is
\* info.node.id when info and info.node are non-null and null otherwise.
C8_UpdateCurrentGame ==
    last.type = "updateCurrentGame" =>
        /\ outcome = "ok"
        /\ game.currentGame = last.payload
        /\ game.currentPingMap = Null
        /\ game.currentNodeLoading = FALSE
        /\ game.createGameLoading = FALSE
        /\ game.createGameError = Null
        /\ \/ /\ last.payload = Null
              /\ game.currentNodeId = Null
           \/ /\ last.payload # Null
              /\ last.payload[1].node = Null
              /\ game.currentNodeId = Null
           \/ /\ last.payload # Null
              /\ last.payload[1].node # Null
              /\ game.currentNodeId = Some(last.payload[1].node[1].id)

\* updateCurrentGame(null) on a state with a selected node, a ping map and a
\* create-game error.
C8_Witness ==
    /\ last.type = "updateCurrentGame"
    /\ last.payload = Null
    /\ prev.game.currentGame # Null
    /\ prev.game.currentNodeId # Null
    /\ prev.game.currentPingMap # Null
    /\ prev.game.createGameError # Null

\* The players of a nullable ping map, and a player's map in it.
PingPlayers(pingMap) == IF pingMap = Null THEN {} ELSE DOMAIN pingMap[1]
PingsOf(pingMap, p) == pingMap[1][p]

\* C2: after updateCurrentPing(player_id, ping_map) the player's map has the
\* delta's ping at every node of the delta and its previous ping at every
\* other node, it is exactly the delta when currentPingMap was null or had no
\* map for the player, and every other player's map is as it was.
C2_PingMerged ==
    last.type = "updateCurrentPing" =>
        LET p == last.payload.player_id
            delta == last.payload.ping_map
            old == prev.game.currentPingMap
            new == game.currentPingMap
        IN  /\ PingPlayers(new) = PingPlayers(old) \cup {p}
            /\ \A q \in PingPlayers(old) \ {p} : PingsOf(new, q) = PingsOf(old, q)
            /\ \A n \in DOMAIN delta :
                   /\ n \in DOMAIN PingsOf(new, p)
                   /\ PingsOf(new, p)[n] = delta[n]
            /\ IF p \in PingPlayers(old)
               THEN /\ DOMAIN PingsOf(new, p) = DOMAIN PingsOf(old, p) \cup DOMAIN delta
                    /\ \A n \in DOMAIN PingsOf(old, p) \ DOMAIN delta :
                           PingsOf(new, p)[n] = PingsOf(old, p)[n]
               ELSE PingsOf(new, p) = delta

\* The scenario of the claim with pings 1 and 2: {7: {9: 1}} received
\* (7, {9: 2, 10: 1}) and became {7: {9: 2, 10: 1}}.
C2_Witness ==
    /\ last.type = "updateCurrentPing"
    /\ last.payload = [player_id |-> 7, ping_map |-> (9 :> 2 @@ 10 :> 1)]
    /\ prev.game.currentPingMap = Some(7 :> (9 :> 1))
    /\ game.currentPingMap = Some(7 :> (9 :> 2 @@ 10 :> 1))

\* C3: updateCurrentPing is idempotent under replay: in the state a delta
\* produced, applying the same delta again produces that state.
C3_ReplayIdempotent ==
    last.type = "updateCurrentPing" =>
        updateCurrentPing(game, last.payload) = Ok(game)

\* A delta was merged into a map that had another ping for one of its nodes,
\* a node the delta lacks, and another player.
C3_Witness ==
    /\ last.type = "updateCurrentPing"
    /\ LET p == last.payload.player_id
           delta == last.payload.ping_map
           old == prev.game.currentPingMap
       IN  /\ p \in PingPlayers(old)
           /\ PingPlayers(old) # {p}
           /\ DOMAIN PingsOf(old, p) \ DOMAIN delta # {}
           /\ \E n \in DOMAIN delta \cap DOMAIN PingsOf(old, p) :
                  PingsOf(old, p)[n] # delta[n]

AllDelivered == delivered = <<Len(arrival), Len(reordered)>>

\* The messages of arrival that carry a ping of player p to node n.
Writes(p, n) ==
    {i \in 1..Len(arrival) :
        arrival[i].player_id = p /\ n \in DOMAIN arrival[i].ping_map}

Latest(S) == CHOOSE i \in S : \A j \in S : j <= i

\* C4: a sequence of updateCurrentPing deltas and any reordering of it that
\* keeps the relative order of the deltas touching the same (player_id,
\* node_id) pair give, from the same starting state, the same currentPingMap,
\* in which every pair a delta touched has the ping of the last delta that
\* touched it.
C4_OrderIndependent ==
    AllDelivered =>
        /\ game.currentPingMap = gameB.currentPingMap
        /\ \A p \in PlayerIds, n \in NodeIds :
               Writes(p, n) # {} =>
                   /\ p \in PingPlayers(game.currentPingMap)
                   /\ n \in DOMAIN PingsOf(game.currentPingMap, p)
                   /\ PingsOf(game.currentPingMap, p)[n] =
                          arrival[Latest(Writes(p, n))].ping_map[n]

\* Three deltas were delivered in two different orders, two of them writing
\* different pings to the same pair.
C4_Witness ==
    /\ AllDelivered
    /\ Len(arrival) = 3
    /\ reordered # arrival
    /\ \E i, j \in 1..Len(arrival) :
           /\ i < j
           /\ \E n \in DOMAIN arrival[i].ping_map \cap DOMAIN arrival[j].ping_map :
                  /\ arrival[i].player_id = arrival[j].player_id
                  /\ arrival[i].ping_map[n] # arrival[j].ping_map[n]

\* The positions (from 1) of the slots that hold player player_id.
HeldBy(slots, player_id) ==
    {i \in 1..Len(slots) :
        /\ slots[i] # Null
        /\ slots[i][1].player # Null
        /\ slots[i][1].player[1].id = player_id}

PlayersUnique(currentGame) ==
    currentGame # Null =>
        \A p \in PlayerIds : Cardinality(HeldBy(currentGame[1].slots, p)) <= 1

\* C6 as stated: in every reachable state no player id is in the player field
\* of more than one slot of currentGame.
C6_PlayerInOneSlot ==
    PlayersUnique(game.currentGame)

\* The payload dispatched last names no player twice: a game info holds each
\* player in at most one slot, a player-enter for the current game carries a
\* player that no other slot holds.
PayloadKeepsPlayersUnique ==
    /\ last.type = "updateCurrentGame" => PlayersUnique(last.payload)
    /\ (last.type = "updatePlayerEnter" /\ GameMatches(prev.game, last.payload.game_id)) =>
           \/ last.payload.slot.player = Null
           \/ HeldBy(prev.game.currentGame[1].slots, last.payload.slot.player[1].id)
                  \subseteq {last.payload.slot_index + 1}

\* C6, amended: the reducers keep the players of the slots distinct in every
\* step whose payload names no player twice; they do not check the payload.
C6_PlayersStayUnique ==
    (PlayersUnique(prev.game.currentGame) /\ PayloadKeepsPlayersUnique) =>
        PlayersUnique(game.currentGame)

\* A player entered a slot of the current game beside a slot held by another.
C6_Witness ==
    /\ last.type = "updatePlayerEnter"
    /\ GameMatches(prev.game, last.payload.game_id)
    /\ PlayersUnique(prev.game.currentGame)
    /\ PayloadKeepsPlayersUnique
    /\ game.currentGame # prev.game.currentGame
    /\ \A p \in PlayerIds : Cardinality(HeldBy(game.currentGame[1].slots, p)) = 1

\* C7: updatePlayerLeave(game_id, player_id) for the current game: if a slot
\* holds the player, that slot's player becomes null and its status Open while
\* every other slot and every other settings field stay; if none does, all
\* slots stay and a diagnostic is logged; no error is raised.
C7_PlayerLeave ==
    (last.type = "updatePlayerLeave" /\ GameMatches(prev.game, last.payload.game_id)) =>
        LET old == prev.game.currentGame[1].slots
            new == game.currentGame[1].slots
            held == HeldBy(old, last.payload.player_id)
        IN  /\ outcome # "threw"
            /\ Len(new) = Len(old)
            /\ IF held = {}
               THEN new = old /\ outcome = "logged"
               ELSE \E i \in held :
                        /\ new[i] = Some(Slot([old[i][1].settings EXCEPT !.status = Open], Null))
                        /\ \A j \in 1..Len(old) \ {i} : new[j] = old[j]

ErrorMeansDisconnected(state) ==
    state.error # Null => state.status = Disconnected

\* C9 as stated: in every reachable state of the ws slice a non-null error
\* implies status = Disconnected.
C9_ErrorMeansDisconnected ==
    ErrorMeansDisconnected(ws)

\* C9, amended: every ws reducer except updateStatus with a status other than
\* Disconnected keeps "a non-null error implies status = Disconnected";
\* updateStatus overwrites the status and leaves the error.
C9_KeptExceptByUpdateStatus ==
    /\ (ErrorMeansDisconnected(prev.ws)
            /\ ~(last.type = "updateStatus" /\ last.payload # Disconnected))
           => ErrorMeansDisconnected(ws)
    /\ last.type = "updateStatus" => ws.status = last.payload /\ ws.error = prev.ws.error

\* An error arrived on a connected store and disconnected it.
C9_Witness ==
    /\ last.type = "updateError"
    /\ prev.ws.status = Connected
    /\ prev.ws.error = Null
    /\ ws.error # Null
    /\ ws.status = Disconnected

\* C10: updateError(e) with e non-null leaves status = Disconnected whatever
\* the status was; updateError(null) sets error to null and leaves the status.
C10_UpdateError ==
    last.type = "updateError" =>
        /\ ws.error = last.payload
        /\ last.payload # Null => ws.status = Disconnected
        /\ last.payload = Null => ws.status = prev.ws.status

\* updateError(null) cleared the error of a store that had reconnected.
C10_Witness ==
    /\ last.type = "updateError"
    /\ last.payload = Null
    /\ prev.ws.error # Null
    /\ ws.error = Null
    /\ ws.status = Connected

\* C11: setWsDisconnected, from any ws state, gives status = Disconnected,
\* clientInfoReloading = false, clientInfo = null, playerSessionLoading =
\* false, playerSession = null, and leaves error, clientInfoReloadError,
\* playerSessionError and disconnectError as they were.
C11_SetWsDisconnected ==
    last.type = "setWsDisconnected" =>
        /\ outcome = "ok"
        /\ ws.status = Disconnected
        /\ ws.clientInfoReloading = FALSE
        /\ ws.clientInfo = Null
        /\ ws.playerSessionLoading = FALSE
        /\ ws.playerSession = Null
        /\ ws.error = prev.ws.error
        /\ ws.clientInfoReloadError = prev.ws.clientInfoReloadError
        /\ ws.playerSessionError = prev.ws.playerSessionError
        /\ ws.disconnectError = prev.ws.disconnectError

\* setWsDisconnected on a connected store that had a client info being
\* reloaded, a player session and each of the four errors.
C11_Witness ==
    /\ last.type = "setWsDisconnected"
    /\ prev.ws.status = Connected
    /\ prev.ws.clientInfo # Null
    /\ prev.ws.clientInfoReloading
    /\ prev.ws.playerSession # Null
    /\ ws.error # Null
    /\ ws.clientInfoReloadError # Null
    /\ ws.playerSessionError # Null
    /\ ws.disconnectError # Null

\* C15: currentGame goes from non-null to null only in a step that applies a
\* current-game-info with a null payload (or a disconnect, which no reducer of
\* the game slice handles); no slot, player, node, ping or create-game action
\* sets currentGame to null.
C15_GameEndsByGameInfo ==
    (prev.game.currentGame # Null /\ game.currentGame = Null) =>
        /\ last.type = "updateCurrentGame"
        /\ last.payload = Null

\* updateCurrentGame(null) ended a current game.
C15_Witness ==
    /\ prev.game.currentGame # Null
    /\ game.currentGame = Null
    /\ last.type = "updateCurrentGame"

\* The slot update dispatched last was for the current game and for a
\* slot_index at which slots has no slot.
SlotUpdateOutOfRange ==
    /\ last.type = "updateSlot"
    /\ GameMatches(prev.game, last.payload.game_id)
    /\ \/ last.payload.slot_index >= Len(prev.game.currentGame[1].slots)
       \/ prev.game.currentGame[1].slots[last.payload.slot_index + 1] = Null

\* C16: updateSlot for the current game with a slot_index that is no existing
\* index of currentGame.slots is an error, not silently ignored, and the
\* failed update leaves the slots (the whole game state) as they were.
C16_SlotIndexOutOfRange ==
    SlotUpdateOutOfRange => outcome = "threw" /\ game = prev.game

\* A slot update for index 1 of a current game that has one slot.
C16_Witness ==
    /\ SlotUpdateOutOfRange
    /\ Len(prev.game.currentGame[1].slots) = 1
    /\ last.payload.slot_index = 1

\* C17: updatePlayerSessionPartial(partial) sets playerSessionLoading = false
\* and playerSession to the session's fields overridden by the partial's; with
\* no session it raises no error and the session is exactly the partial.
C17_SessionPatched ==
    last.type = "updatePlayerSessionPartial" =>
        LET partial == last.payload
            old == prev.ws.playerSession
        IN  /\ outcome = "ok"
            /\ ws.playerSessionLoading = FALSE
            /\ ws.playerSession # Null
            /\ \A f \in DOMAIN partial :
                   f \in DOMAIN ws.playerSession[1] /\ ws.playerSession[1][f] = partial[f]
            /\ IF old = Null
               THEN ws.playerSession[1] = partial
               ELSE /\ DOMAIN ws.playerSession[1] = DOMAIN old[1] \cup DOMAIN partial
                    /\ \A f \in DOMAIN old[1] \ DOMAIN partial :
                           ws.playerSession[1][f] = old[1][f]

\* A partial with another status was merged into a loading session, whose
\* game_id stayed.
C17_Witness ==
    /\ last.type = "updatePlayerSessionPartial"
    /\ prev.ws.playerSessionLoading
    /\ prev.ws.playerSession = Some([status |-> 1, game_id |-> 1])
    /\ ws.playerSession = Some([status |-> 2, game_id |-> 1])

\* C18: updateNode(game_id, node_id) for the current game sets currentNodeId =
\* node_id, currentNodeLoading = false and currentPingMap = null, and leaves
\* currentGame, the ping snapshot and the create-game flags as they were.
C18_UpdateNode ==
    (last.type = "updateNode" /\ GameMatches(prev.game, last.payload.game_id)) =>
        /\ outcome = "ok"
        /\ game.currentNodeId = last.payload.node_id
        /\ game.currentNodeLoading = FALSE
        /\ game.currentPingMap = Null
        /\ game.currentGame = prev.game.currentGame
        /\ game.pingSnapshot = prev.game.pingSnapshot
        /\ game.pingSnapshotLoading = prev.game.pingSnapshotLoading
        /\ game.createGameLoading = prev.game.createGameLoading
        /\ game.createGameError = prev.game.createGameError

\* The claim's scenario with node 10: current game 1, currentNodeId null and
\* loading, a ping map; updateNode(1, 10) selected node 10.
C18_Witness ==
    /\ last.type = "updateNode"
    /\ last.payload = [game_id |-> 1, node_id |-> Some(10)]
    /\ GameMatches(prev.game, 1)
    /\ prev.game.currentNodeId = Null
    /\ prev.game.currentNodeLoading
    /\ prev.game.currentPingMap # Null
    /\ game.currentNodeId = Some(10)

\* C20: after updateCurrentGame no loading flag of the previous game is set:
\* createGameLoading, currentNodeLoading and pingSnapshotLoading are false and
\* createGameError is null.
C20_GameReplacedClearsFlags ==
    last.type = "updateCurrentGame" =>
        /\ game.createGameLoading = FALSE
        /\ game.currentNodeLoading = FALSE
        /\ game.pingSnapshotLoading = FALSE
        /\ game.createGameError = Null

\* The message handed to dispatchMessage last had this type.
Received(type) ==
    last.type = "dispatchMessage" /\ last.payload.type = type

\* The types of the actions dispatched for the last message, in order.
DispatchedTypes == [i \in 1..Len(dispatched) |-> dispatched[i].type]

\* The slices the last message's actions belong to.
DispatchedSlices == {dispatched[i].slice : i \in 1..Len(dispatched)}

\* C12 as claimed: an inbound Disconnect message processed by dispatchMessage
\* is recorded as disconnectError and the status is forced to Disconnected.
C12_DisconnectForcesStatus ==
    Received("Disconnect") =>
        /\ ws.disconnectError = Some([message |-> last.payload.message])
        /\ ws.status = Disconnected

\* C12: an inbound Disconnect message processed by dispatchMessage is recorded
\* as disconnectError and as playerSessionError, which clears the player
\* session and its loading flag; the status and the rest of the ws state, and
\* the game state, stay as they were.
C12_DisconnectRecorded ==
    Received("Disconnect") =>
        /\ outcome = "ok"
        /\ DispatchedTypes = <<"updatePlayerSessionError", "setDisconnectError">>
        /\ ws = [prev.ws EXCEPT
                    !.disconnectError = Some([message |-> last.payload.message]),
                    !.playerSessionError = Some([message |-> last.payload.message]),
                    !.playerSession = Null,
                    !.playerSessionLoading = FALSE]
        /\ ws.status = prev.ws.status
        /\ game = prev.game

\* A Disconnect message reached a connected store with a player session; the
\* store is still connected.
C12_Witness ==
    /\ Received("Disconnect")
    /\ prev.ws.playerSession # Null
    /\ prev.ws.disconnectError = Null
    /\ ws.disconnectError # Null
    /\ ws.status = Connected

\* C13 as claimed: for every handled tag dispatchMessage dispatches exactly
\* one mutation, of one slice.
C13_OneMutationPerTag ==
    (last.type = "dispatchMessage" /\ last.payload.type \in HandledTypes) =>
        Len(dispatched) = 1

\* C13: for every handled tag but two, dispatchMessage dispatches exactly one
\* mutation, of the ws slice, the game slice, the map slice or the node slice.
\* PlayerSessionUpdate dispatches checkCurrentGameId of the game slice, then
\* updatePlayerSessionPartial of the ws slice; Disconnect dispatches
\* updatePlayerSessionError, then setDisconnectError, both of the ws slice.
\* No other tag reaches two slices.
C13_MutationsPerTag ==
    (last.type = "dispatchMessage" /\ last.payload.type \in HandledTypes) =>
        /\ DispatchedSlices \subseteq {"ws", "game", "map", "node"}
        /\ IF last.payload.type = "PlayerSessionUpdate"
           THEN /\ DispatchedTypes = <<"checkCurrentGameId", "updatePlayerSessionPartial">>
                /\ dispatched[1].slice = "game"
                /\ dispatched[2].slice = "ws"
           ELSE IF last.payload.type = "Disconnect"
           THEN /\ DispatchedTypes = <<"updatePlayerSessionError", "setDisconnectError">>
                /\ DispatchedSlices = {"ws"}
           ELSE Len(dispatched) = 1

\* A PlayerSessionUpdate reached a store with a player session: two actions
\* went to two slices.
C13_Witness ==
    /\ Received("PlayerSessionUpdate")
    /\ prev.ws.playerSession # Null
    /\ Len(dispatched) = 2
    /\ DispatchedSlices = {"game", "ws"}

\* C14: dispatchMessage on a message whose type no case handles dispatches no
\* action, does not navigate, raises no error and leaves the ws and game states
\* as they were.
C14_UnhandledIsNoOp ==
    (last.type = "dispatchMessage" /\ last.payload.type \notin HandledTypes) =>
        /\ dispatched = <<>>
        /\ pushed = <<>>
        /\ outcome = "ok"
        /\ ws = prev.ws
        /\ game = prev.game

\* A message of a type that only the client sends reached a store that has a
\* player session and a current game.
C14_Witness ==
    /\ last.type = "dispatchMessage"
    /\ last.payload.type \in SentTypes
    /\ ws.playerSession # Null
    /\ game.currentGame # Null
    /\ pathname = "/lobby"

\* C19: nothing keeps a resource to one request in flight: a second connect or
\* reloadClientInfo can begin while the first is outstanding, and the answer to
\* the older request (PlayerSession, ConnectRejected, ReloadClientInfoError)
\* sets the resource's loading flag to false however many newer requests are
\* still outstanding.
C19_CompletionClearsLoading ==
    /\ (Received("PlayerSession") \/ Received("ConnectRejected")) =>
           ws.playerSessionLoading = FALSE
    /\ Received("ReloadClientInfoError") => ws.clientInfoReloading = FALSE
    /\ last.type = "updatePlayerSessionLoading" =>
           ws.playerSessionLoading /\ outstanding.connect > 0
    /\ last.type = "updateClientInfoReloading" =>
           ws.clientInfoReloading /\ outstanding.reload > 0

\* Two connects began and two reloads began; the answer to the first connect,
\* then the failure of the first reload, cleared both flags while the second
\* request of each kind is outstanding.
C19_Witness ==
    /\ Received("ReloadClientInfoError")
    /\ prev.ws.clientInfoReloading
    /\ outstanding = [connect |-> 1, reload |-> 1]
    /\ ws.clientInfoReloading = FALSE
    /\ ws.playerSessionLoading = FALSE

\* C21: between two current-game-info events the number of slots never
\* changes: updateSlot, updatePlayerEnter (for any slot_index it carries) and
\* updatePlayerLeave keep currentGame.slots at the same length, and at most the
\* one index they are about holds another slot.
C21_SlotCountKept ==
    (/\ last.type \in {"updateSlot", "updatePlayerEnter", "updatePlayerLeave"}
     /\ prev.game.currentGame # Null) =>
        LET before == prev.game.currentGame[1].slots
            after == game.currentGame[1].slots
        IN  /\ game.currentGame # Null
            /\ Len(after) = Len(before)
            /\ Cardinality({i \in 1..Len(before) : after[i] # before[i]}) <= 1

\* C23: in every state reachable by game actions, currentNodeLoading = true
\* implies currentNodeId = null; every action that sets currentNodeId to a
\* non-null value leaves currentNodeLoading false.
C23_LoadingMeansNoNode ==
    /\ game.currentNodeLoading => game.currentNodeId = Null
    /\ (game.currentNodeId # Null /\ game.currentNodeId # prev.game.currentNodeId) =>
           game.currentNodeLoading = FALSE

\* startUpdateNode on a game with a node selected: the node is gone and the
\* flag is set.
C23_Witness ==
    /\ last.type = "startUpdateNode"
    /\ prev.game.currentNodeId # Null
    /\ prev.game.currentGame # Null
    /\ game.currentNodeLoading
    /\ game.currentNodeId = Null

\* C24: in every state reachable by game actions, pingSnapshotLoading = true
\* implies pingSnapshot = null; only startLoadPingSnapshot sets the flag (and
\* it clears the snapshot), only setPingSnapshot installs a snapshot (and it
\* clears the flag).
C24_LoadingMeansNoSnapshot ==
    /\ game.pingSnapshotLoading => game.pingSnapshot = Null
    /\ (game.pingSnapshotLoading /\ ~prev.game.pingSnapshotLoading) =>
           last.type = "startLoadPingSnapshot"
    /\ (game.pingSnapshot # Null /\ game.pingSnapshot # prev.game.pingSnapshot) =>
           last.type = "setPingSnapshot"
    /\ last.type = "startLoadPingSnapshot" =>
           game.pingSnapshotLoading /\ game.pingSnapshot = Null
    /\ last.type = "setPingSnapshot" =>
           ~game.pingSnapshotLoading /\ game.pingSnapshot # Null

\* startLoadPingSnapshot on a state that had a snapshot: the snapshot is gone
\* and the flag is set.
C24_Witness ==
    /\ last.type = "startLoadPingSnapshot"
    /\ prev.game.pingSnapshot # Null
    /\ ~prev.game.pingSnapshotLoading
    /\ game.pingSnapshotLoading
    /\ game.pingSnapshot = Null

\* C22: whenever selectCurrentNodePingMap returns a mapping, its entry for the
\* local player is the selected node's own ping, also when currentPingMap has
\* an entry for the local player and that node; every other player's entry is
\* that player's currentPingMap value for the node, and a player with no value
\* for the node is absent.
C22_OwnPingFromNode ==
    (last.type = "selectCurrentNodePingMap" /\ outcome # Null) =>
        LET r == outcome[1]
            local == last.payload.playerInfo[1].id
            node == CHOOSE n \in {last.payload.nodes[i] : i \in 1..Len(last.payload.nodes)} :
                        n.id = game.currentNodeId[1]
            pingMap == game.currentPingMap[1]
        IN  /\ NumberToString(local) \in DOMAIN r
            /\ r[NumberToString(local)] = node.ping
            /\ \A p \in PlayerIds \ {local} :
                   IF p \in DOMAIN pingMap /\ node.id \in DOMAIN pingMap[p]
                   THEN /\ NumberToString(p) \in DOMAIN r
                        /\ r[NumberToString(p)] = pingMap[p][node.id]
                   ELSE NumberToString(p) \notin DOMAIN r

====
